---- MODULE Spec2Model ----
(***************************************************************************)
(* Election Campaign Manager canister (Azle, Internet Computer).           *)
(*                                                                         *)
(* The model follows the complete canister source, src/unnamed/part_000:   *)
(* seven StableBTreeMap stores and eighteen canister methods.  The file    *)
(* src/src/dfinity_js_backend/src/index.ts is an abridged copy of the      *)
(* first nine methods that places a function declaration inside the        *)
(* Canister({...}) object literal, which does not parse; it has no         *)
(* behaviour of its own and is used only as evidence of intent.            *)
(*                                                                         *)
(* Conventions                                                             *)
(*  - text values: the empty string is "", every other text is non-empty;  *)
(*    JavaScript truthiness of a text t is  t # "".                        *)
(*  - identifiers (uuid v4 strings) are modelled as positive naturals, one *)
(*    range per store; their numeric order stands for the lexicographic    *)
(*    key order of the StableBTreeMap.  0 stands for the empty text where  *)
(*    an identifier-typed field of a payload may be empty.                 *)
(*  - a canister method runs to completion on its own (one message at a    *)
(*    time); every read of the clock inside one message yields the same    *)
(*    value, the time of the message.                                      *)
(*  - an uncaught TypeError traps the canister: the message is rejected,   *)
(*    no Result value is returned and the state is rolled back.            *)
(***************************************************************************)
EXTENDS Naturals, Sequences, FiniteSets

(* ----------------------------- bounds --------------------------------- *)
MaxUsers == 2
MaxCampaigns == 1
MaxRecords == 1
MaxNotifications == 2
MaxTime == 1
MaxAmount == 1

UserIds == 1..MaxUsers
CampaignIds == 1..MaxCampaigns
DonationIds == 1..MaxRecords
ExpenseIds == 1..MaxRecords
OutreachIds == 1..MaxRecords
MessageIds == 1..MaxRecords
NotificationIds == 1..MaxNotifications

(* ------------------------- types of the source ------------------------ *)
UserRole == {"Admin", "CampaignManager", "Donor"}
Error == {"NotFound", "InvalidPayload", "Unauthorized", "ValidationError"}

Texts == {"", "x"}
Usernames == {"alice", "bob"}
Principals == {"caller"}
Amounts == 0..MaxAmount

\* a campaign id passed as a method argument: any identifier a campaign may
\* get, or the empty text, which is the id of no campaign
CampaignRefs == {0} \cup CampaignIds

UserPayload == [username : Usernames, role : UserRole]
\* the UserPayload that names the caller of a create method: only its
\* username is ever read, so one role is drawn
CallerPayload == [username : Usernames, role : {"Donor"}]
CampaignPayload == [name : Texts, description : Texts, created_by : UserIds]
DonationPayload == [campaign_id : CampaignIds, donor_name : Texts, amount : Amounts]
ExpensePayload == [campaign_id : CampaignIds, description : Texts, amount : Amounts]
VoterOutreachPayload == [campaign_id : CampaignIds, activity : Texts, date : Texts, status : Texts]
MessagePayload == [campaign_id : CampaignIds, sender : {0} \cup UserIds, content : Texts]

VARIABLES userStorage, campaignStorage, donationStorage, expenseStorage,
          outreachStorage, messageStorage, notificationStorage, now, result

stores == <<userStorage, campaignStorage, donationStorage, expenseStorage,
            outreachStorage, messageStorage, notificationStorage>>
vars == <<userStorage, campaignStorage, donationStorage, expenseStorage,
          outreachStorage, messageStorage, notificationStorage, now, result>>

(* ----------------------- JavaScript / Azle helpers -------------------- *)
\* a variant value {Tag: null}: reading property k yields null for its own
\* tag and undefined for any other
Prop(role, k) == IF role = k THEN "null" ELSE "undefined"
\* the JavaScript test  v !== null
NotNull(v) == v # "null"
\* the JavaScript test  "k" in variant
In(k, role) == role = k
\* truthiness of a text
Truthy(t) == t # ""
\* truthiness of an identifier-typed text (0 is the empty text)
TruthyId(i) == i # 0
\* a decoded variant is an object and therefore truthy
TruthyObj(o) == TRUE

\* StableBTreeMap.get: an Opt object, {Some: value} or {None: null}
get(storage, key) ==
  IF key \in DOMAIN storage THEN [Some |-> storage[key]] ELSE [None |-> "null"]
\* the JavaScript test  "None" in opt
IsNone(opt) == "None" \in DOMAIN opt
\* an Opt is an object: it is never  === null  and never falsy
OptIsNull(opt) == FALSE
OptIsFalsy(opt) == FALSE
\* reading opt.Some.<field> throws when opt is {None: null}
Throws(opt) == "Some" \notin DOMAIN opt

\* StableBTreeMap.insert: insert or replace under the key
insert(storage, key, value) ==
  [k \in DOMAIN storage \cup {key} |-> IF k = key THEN value ELSE storage[k]]

Min(S) == CHOOSE x \in S : \A y \in S : x <= y
RECURSIVE KeysInOrder(_)
KeysInOrder(S) ==
  IF S = {} THEN <<>> ELSE <<Min(S)>> \o KeysInOrder(S \ {Min(S)})
\* StableBTreeMap.values: the values in ascending key order
values(storage) ==
  LET ks == KeysInOrder(DOMAIN storage)
  IN [i \in 1..Len(ks) |-> storage[ks[i]]]

\* Array.prototype.filter: the matching elements, order kept
filter(seq, Keep(_)) == SelectSeq(seq, Keep)

\* Array.prototype.find by username: <<u>> for the first match, <<>> for undefined
findByUsername(users, username) ==
  LET m == filter(users, LAMBDA u : u.username = username)
  IN IF m = <<>> THEN <<>> ELSE <<Head(m)>>

Ok(v) == [tag |-> "Ok", val |-> v]
Err(tag) == [tag |-> tag, val |-> <<>>]
Trap == [tag |-> "Trap", val |-> <<>>]

(* ------------------------- notification helper ------------------------ *)
\* the record is stored through the Notification type (four fields)
notifyParticipants(notifications, campaignId, message, notificationId, t) ==
  insert(notifications, notificationId,
         [id |-> notificationId, campaign_id |-> campaignId,
          message |-> message, created_at |-> t])

(* ---------------------------- User Management ------------------------- *)
\* outcome of a method: the Result (or Trap), the store it writes and the
\* notification store, as they are when the method returns
Outcome(r, store, notifications) ==
  [tag |-> r.tag, val |-> r.val, store |-> store, notifications |-> notifications]

\* variant: the username is not compared with the stored ones
createUser_NoUniqueness(payload, userId, caller) ==
  IF ~TruthyObj(payload.role) \/ ~TruthyObj(payload.role)
  THEN Outcome(Err("InvalidPayload"), userStorage, notificationStorage)
  ELSE LET user == [id |-> userId, owner |-> caller,
                    username |-> payload.username, role |-> payload.role,
                    points |-> 0, created_at |-> now]
       IN Outcome(Ok(<<user>>), insert(userStorage, userId, user),
                  notificationStorage)

createUser(payload, userId, caller) ==
  IF ~TruthyObj(payload.role) \/ ~TruthyObj(payload.role)
  THEN Outcome(Err("InvalidPayload"), userStorage, notificationStorage)
  ELSE LET existingUser == findByUsername(values(userStorage), payload.username)
       IN IF existingUser # <<>>
          THEN Outcome(Err("ValidationError"), userStorage, notificationStorage)
          ELSE LET user == [id |-> userId, owner |-> caller,
                            username |-> payload.username, role |-> payload.role,
                            points |-> 0, created_at |-> now]
               IN Outcome(Ok(<<user>>), insert(userStorage, userId, user),
                          notificationStorage)

getUsers ==
  LET users == values(userStorage)
  IN IF Len(users) = 0 THEN Err("NotFound") ELSE Ok(users)

getUserByUsername(username) ==
  LET user == findByUsername(values(userStorage), username)
  IN IF user = <<>> THEN Err("NotFound") ELSE Ok(user)

RoleFilter(role, user) ==
  IF NotNull(Prop(role, "Admin"))
  THEN NotNull(Prop(user.role, "Admin"))
  ELSE IF NotNull(Prop(role, "CampaignManager"))
       THEN NotNull(Prop(user.role, "CampaignManager"))
       ELSE FALSE

getUsersByRole(role) ==
  LET users == filter(values(userStorage), LAMBDA user : RoleFilter(role, user))
  IN IF Len(users) = 0 THEN Err("NotFound") ELSE Ok(users)

(* -------------------------- Campaign Management ----------------------- *)
\* variant: only the Admin tag is accepted
hasValidRole_AdminOnly(role) == In("Admin", role)

\* "Admin" in role || "CampaignManager" in role
hasValidRole(role) == In("Admin", role) \/ In("CampaignManager", role)

\* variant: created_at is stamped from a later reading of the clock than
\* updated_at
createCampaign_LaterClockRead(payload, campaignId, notificationId) ==
  IF ~Truthy(payload.name) \/ ~Truthy(payload.description)
  THEN Outcome(Err("InvalidPayload"), campaignStorage, notificationStorage)
  ELSE LET userOpt == get(userStorage, payload.created_by)
       IN IF OptIsNull(userOpt)
          THEN Outcome(Err("NotFound"), campaignStorage, notificationStorage)
          ELSE IF Throws(userOpt)
          THEN Outcome(Trap, campaignStorage, notificationStorage)
          ELSE IF ~hasValidRole(userOpt.Some.role)
          THEN Outcome(Err("Unauthorized"), campaignStorage, notificationStorage)
          ELSE LET timestamp == now
                   campaign == [id |-> campaignId, name |-> payload.name,
                                description |-> payload.description,
                                created_by |-> payload.created_by,
                                created_at |-> now + 1, updated_at |-> timestamp]
               IN Outcome(Ok(<<campaign>>),
                          insert(campaignStorage, campaignId, campaign),
                          notifyParticipants(notificationStorage, campaignId,
                                             "New campaign created.",
                                             notificationId, now))

\* variant: the role of the creating user is not checked
createCampaign_NoRoleCheck(payload, campaignId, notificationId) ==
  IF ~Truthy(payload.name) \/ ~Truthy(payload.description)
  THEN Outcome(Err("InvalidPayload"), campaignStorage, notificationStorage)
  ELSE LET userOpt == get(userStorage, payload.created_by)
       IN IF OptIsNull(userOpt)
          THEN Outcome(Err("NotFound"), campaignStorage, notificationStorage)
          ELSE IF Throws(userOpt)
          THEN Outcome(Trap, campaignStorage, notificationStorage)
          ELSE LET campaign == [id |-> campaignId, name |-> payload.name,
                                description |-> payload.description,
                                created_by |-> payload.created_by,
                                created_at |-> now, updated_at |-> now]
               IN Outcome(Ok(<<campaign>>),
                          insert(campaignStorage, campaignId, campaign),
                          notifyParticipants(notificationStorage, campaignId,
                                             "New campaign created.",
                                             notificationId, now))

\* variant: the creating user is looked up and checked before the fields
createCampaign_LookupFirst(payload, campaignId, notificationId) ==
  LET userOpt == get(userStorage, payload.created_by)
  IN IF OptIsNull(userOpt)
     THEN Outcome(Err("NotFound"), campaignStorage, notificationStorage)
     ELSE IF Throws(userOpt)
     THEN Outcome(Trap, campaignStorage, notificationStorage)
     ELSE IF ~hasValidRole(userOpt.Some.role)
     THEN Outcome(Err("Unauthorized"), campaignStorage, notificationStorage)
     ELSE IF ~Truthy(payload.name) \/ ~Truthy(payload.description)
     THEN Outcome(Err("InvalidPayload"), campaignStorage, notificationStorage)
     ELSE LET campaign == [id |-> campaignId, name |-> payload.name,
                           description |-> payload.description,
                           created_by |-> payload.created_by,
                           created_at |-> now, updated_at |-> now]
          IN Outcome(Ok(<<campaign>>),
                     insert(campaignStorage, campaignId, campaign),
                     notifyParticipants(notificationStorage, campaignId,
                                        "New campaign created.",
                                        notificationId, now))

createCampaign(payload, campaignId, notificationId) ==
  IF ~Truthy(payload.name) \/ ~Truthy(payload.description)
  THEN Outcome(Err("InvalidPayload"), campaignStorage, notificationStorage)
  ELSE LET userOpt == get(userStorage, payload.created_by)
       IN IF OptIsNull(userOpt)
          THEN Outcome(Err("NotFound"), campaignStorage, notificationStorage)
          ELSE IF Throws(userOpt)
          THEN Outcome(Trap, campaignStorage, notificationStorage)
          ELSE IF ~hasValidRole(userOpt.Some.role)
          THEN Outcome(Err("Unauthorized"), campaignStorage, notificationStorage)
          \* created_at and timestamp are two reads of the clock in one message
          ELSE LET timestamp == now
                   campaign == [id |-> campaignId, name |-> payload.name,
                                description |-> payload.description,
                                created_by |-> payload.created_by,
                                created_at |-> now, updated_at |-> timestamp]
               IN Outcome(Ok(<<campaign>>),
                          insert(campaignStorage, campaignId, campaign),
                          notifyParticipants(notificationStorage, campaignId,
                                             "New campaign created.",
                                             notificationId, now))

\* variant: created_by is left as it was stored
updateCampaign_KeepsCreatedBy(campaignId, payload, notificationId) ==
  LET existingCampaignOpt == get(campaignStorage, campaignId)
  IN IF IsNone(existingCampaignOpt)
     THEN Outcome(Err("NotFound"), campaignStorage, notificationStorage)
     ELSE IF ~Truthy(payload.name) \/ ~Truthy(payload.description)
     THEN Outcome(Err("InvalidPayload"), campaignStorage, notificationStorage)
     ELSE LET userOpt == get(userStorage, payload.created_by)
          IN IF IsNone(userOpt)
             THEN Outcome(Err("NotFound"), campaignStorage, notificationStorage)
             ELSE IF ~hasValidRole(userOpt.Some.role)
             THEN Outcome(Err("Unauthorized"), campaignStorage, notificationStorage)
             ELSE LET updatedCampaign ==
                        [existingCampaignOpt.Some EXCEPT
                           !.name = payload.name,
                           !.description = payload.description,
                           !.updated_at = now]
                  IN Outcome(Ok(<<updatedCampaign>>),
                             insert(campaignStorage, campaignId, updatedCampaign),
                             notifyParticipants(notificationStorage, campaignId,
                                                "Campaign updated.",
                                                notificationId, now))

\* variant: the updated record is built afresh and created_at is stamped anew
updateCampaign_ResetsCreatedAt(campaignId, payload, notificationId) ==
  LET existingCampaignOpt == get(campaignStorage, campaignId)
  IN IF IsNone(existingCampaignOpt)
     THEN Outcome(Err("NotFound"), campaignStorage, notificationStorage)
     ELSE IF ~Truthy(payload.name) \/ ~Truthy(payload.description)
     THEN Outcome(Err("InvalidPayload"), campaignStorage, notificationStorage)
     ELSE LET userOpt == get(userStorage, payload.created_by)
          IN IF IsNone(userOpt)
             THEN Outcome(Err("NotFound"), campaignStorage, notificationStorage)
             ELSE IF ~hasValidRole(userOpt.Some.role)
             THEN Outcome(Err("Unauthorized"), campaignStorage, notificationStorage)
             ELSE LET updatedCampaign ==
                        [id |-> campaignId, name |-> payload.name,
                         description |-> payload.description,
                         created_by |-> payload.created_by,
                         created_at |-> now, updated_at |-> now]
                  IN Outcome(Ok(<<updatedCampaign>>),
                             insert(campaignStorage, campaignId, updatedCampaign),
                             notifyParticipants(notificationStorage, campaignId,
                                                "Campaign updated.",
                                                notificationId, now))

\* variant: the payload is validated before the campaign is looked up
updateCampaign_ValidateFirst(campaignId, payload, notificationId) ==
  LET existingCampaignOpt == get(campaignStorage, campaignId)
  IN IF ~Truthy(payload.name) \/ ~Truthy(payload.description)
     THEN Outcome(Err("InvalidPayload"), campaignStorage, notificationStorage)
     ELSE IF IsNone(existingCampaignOpt)
     THEN Outcome(Err("NotFound"), campaignStorage, notificationStorage)
     ELSE LET userOpt == get(userStorage, payload.created_by)
          IN IF IsNone(userOpt)
             THEN Outcome(Err("NotFound"), campaignStorage, notificationStorage)
             ELSE IF ~hasValidRole(userOpt.Some.role)
             THEN Outcome(Err("Unauthorized"), campaignStorage, notificationStorage)
             ELSE LET updatedCampaign ==
                        [existingCampaignOpt.Some EXCEPT
                           !.name = payload.name,
                           !.description = payload.description,
                           !.created_by = payload.created_by,
                           !.updated_at = now]
                  IN Outcome(Ok(<<updatedCampaign>>),
                             insert(campaignStorage, campaignId, updatedCampaign),
                             notifyParticipants(notificationStorage, campaignId,
                                                "Campaign updated.",
                                                notificationId, now))

updateCampaign(campaignId, payload, notificationId) ==
  LET existingCampaignOpt == get(campaignStorage, campaignId)
  IN IF IsNone(existingCampaignOpt)
     THEN Outcome(Err("NotFound"), campaignStorage, notificationStorage)
     ELSE IF ~Truthy(payload.name) \/ ~Truthy(payload.description)
     THEN Outcome(Err("InvalidPayload"), campaignStorage, notificationStorage)
     ELSE LET userOpt == get(userStorage, payload.created_by)
          IN IF IsNone(userOpt)
             THEN Outcome(Err("NotFound"), campaignStorage, notificationStorage)
             ELSE IF ~hasValidRole(userOpt.Some.role)
             THEN Outcome(Err("Unauthorized"), campaignStorage, notificationStorage)
             ELSE LET existingCampaign == existingCampaignOpt.Some
                      updatedCampaign ==
                        [existingCampaign EXCEPT
                           !.name = payload.name,
                           !.description = payload.description,
                           !.created_by = payload.created_by,
                           !.updated_at = now]
                  IN Outcome(Ok(<<updatedCampaign>>),
                             insert(campaignStorage, campaignId, updatedCampaign),
                             notifyParticipants(notificationStorage, campaignId,
                                                "Campaign updated.",
                                                notificationId, now))

getCampaigns ==
  LET campaigns == values(campaignStorage)
  IN IF Len(campaigns) = 0 THEN Err("NotFound") ELSE Ok(campaigns)

getCampaignById(campaignId) ==
  LET campaignOpt == get(campaignStorage, campaignId)
  IN IF IsNone(campaignOpt) THEN Err("NotFound") ELSE Ok(<<campaignOpt.Some>>)

(* -------------------------- Donation Management ----------------------- *)
\* variant: only a negative amount is refused
InvalidDonation_NegativeOnly(payload) ==
  ~Truthy(payload.donor_name) \/ payload.amount < 0

\* !payload.donor_name || payload.amount <= 0n
InvalidDonation(payload) ==
  ~Truthy(payload.donor_name) \/ payload.amount <= 0

\* variant: the donation is stored without looking up its campaign
createDonation_NoCampaignLookup(payload, userPayload, donationId, notificationId) ==
  LET users == values(userStorage)
      user == findByUsername(users, userPayload.username)
  IN IF user = <<>>
     THEN Outcome(Err("Unauthorized"), donationStorage, notificationStorage)
     ELSE IF ~In("Donor", user[1].role)
     THEN Outcome(Err("Unauthorized"), donationStorage, notificationStorage)
     ELSE IF InvalidDonation(payload)
     THEN Outcome(Err("InvalidPayload"), donationStorage, notificationStorage)
     ELSE LET donation == [id |-> donationId,
                           campaign_id |-> payload.campaign_id,
                           donor_name |-> payload.donor_name,
                           amount |-> payload.amount,
                           created_at |-> now]
          IN Outcome(Ok(<<donation>>),
                     insert(donationStorage, donationId, donation),
                     notifyParticipants(notificationStorage, donation.campaign_id,
                                        "New donation received.",
                                        notificationId, now))

\* variant: the notification is written before the campaign is looked up
createDonation_NotifyBeforeLookup(payload, userPayload, donationId, notificationId) ==
  LET users == values(userStorage)
      user == findByUsername(users, userPayload.username)
      notified == notifyParticipants(notificationStorage, payload.campaign_id,
                                     "New donation received.", notificationId, now)
  IN IF user = <<>>
     THEN Outcome(Err("Unauthorized"), donationStorage, notificationStorage)
     ELSE IF ~In("Donor", user[1].role)
     THEN Outcome(Err("Unauthorized"), donationStorage, notificationStorage)
     ELSE IF InvalidDonation(payload)
     THEN Outcome(Err("InvalidPayload"), donationStorage, notificationStorage)
     ELSE IF IsNone(get(campaignStorage, payload.campaign_id))
     THEN Outcome(Err("NotFound"), donationStorage, notified)
     ELSE LET donation == [id |-> donationId,
                           campaign_id |-> payload.campaign_id,
                           donor_name |-> payload.donor_name,
                           amount |-> payload.amount,
                           created_at |-> now]
          IN Outcome(Ok(<<donation>>),
                     insert(donationStorage, donationId, donation), notified)

createDonation(payload, userPayload, donationId, notificationId) ==
  LET users == values(userStorage)
      user == findByUsername(users, userPayload.username)
  IN IF user = <<>>
     THEN Outcome(Err("Unauthorized"), donationStorage, notificationStorage)
     ELSE IF ~In("Donor", user[1].role)
     THEN Outcome(Err("Unauthorized"), donationStorage, notificationStorage)
     ELSE IF InvalidDonation(payload)
     THEN Outcome(Err("InvalidPayload"), donationStorage, notificationStorage)
     ELSE LET campaignOpt == get(campaignStorage, payload.campaign_id)
          IN IF IsNone(campaignOpt)
             THEN Outcome(Err("NotFound"), donationStorage, notificationStorage)
             ELSE LET timestamp == now
                      donation == [id |-> donationId,
                                   campaign_id |-> payload.campaign_id,
                                   donor_name |-> payload.donor_name,
                                   amount |-> payload.amount,
                                   created_at |-> timestamp]
                  IN Outcome(Ok(<<donation>>),
                             insert(donationStorage, donationId, donation),
                             notifyParticipants(notificationStorage, donation.campaign_id,
                                                "New donation received.",
                                                notificationId, now))

getDonationById(donationId) ==
  LET donationOpt == get(donationStorage, donationId)
  IN IF IsNone(donationOpt)
     THEN Err("NotFound")
     ELSE LET campaignOpt == get(campaignStorage, donationOpt.Some.campaign_id)
          IN IF IsNone(campaignOpt) THEN Err("NotFound") ELSE Ok(<<donationOpt.Some>>)

\* variant: the donations are not filtered by campaign
getDonationsByCampaignId_NoFilter(campaignId) ==
  LET donations == values(donationStorage)
  IN IF Len(donations) = 0 THEN Err("NotFound") ELSE Ok(donations)

getDonationsByCampaignId(campaignId) ==
  LET donations == filter(values(donationStorage),
                          LAMBDA donation : donation.campaign_id = campaignId)
  IN IF Len(donations) = 0 THEN Err("NotFound") ELSE Ok(donations)

(* --------------------------- Expense Management ----------------------- *)
\* variant: the payload is validated before the caller's role is checked
createExpense_ValidateFirst(payload, userPayload, expenseId, notificationId) ==
  LET users == values(userStorage)
      user == findByUsername(users, userPayload.username)
  IN IF ~Truthy(payload.description) \/ payload.amount <= 0
     THEN Outcome(Err("InvalidPayload"), expenseStorage, notificationStorage)
     ELSE IF user = <<>>
     THEN Outcome(Err("Unauthorized"), expenseStorage, notificationStorage)
     ELSE IF ~In("Admin", user[1].role)
     THEN Outcome(Err("Unauthorized"), expenseStorage, notificationStorage)
     ELSE LET expense == [id |-> expenseId,
                          campaign_id |-> payload.campaign_id,
                          description |-> payload.description,
                          amount |-> payload.amount,
                          created_at |-> now]
          IN Outcome(Ok(<<expense>>),
                     insert(expenseStorage, expenseId, expense),
                     notifyParticipants(notificationStorage, expense.campaign_id,
                                        "New expense recorded.",
                                        notificationId, now))

createExpense(payload, userPayload, expenseId, notificationId) ==
  LET users == values(userStorage)
      user == findByUsername(users, userPayload.username)
  IN IF user = <<>>
     THEN Outcome(Err("Unauthorized"), expenseStorage, notificationStorage)
     ELSE IF ~In("Admin", user[1].role)
     THEN Outcome(Err("Unauthorized"), expenseStorage, notificationStorage)
     ELSE IF ~Truthy(payload.description) \/ payload.amount <= 0
     THEN Outcome(Err("InvalidPayload"), expenseStorage, notificationStorage)
     ELSE LET campaign == get(campaignStorage, payload.campaign_id)
          IN IF OptIsFalsy(campaign)
             THEN Outcome(Err("NotFound"), expenseStorage, notificationStorage)
             ELSE LET timestamp == now
                      expense == [id |-> expenseId,
                                  campaign_id |-> payload.campaign_id,
                                  description |-> payload.description,
                                  amount |-> payload.amount,
                                  created_at |-> timestamp]
                  IN Outcome(Ok(<<expense>>),
                             insert(expenseStorage, expenseId, expense),
                             notifyParticipants(notificationStorage, expense.campaign_id,
                                                "New expense recorded.",
                                                notificationId, now))

getExpensesByCampaignId(campaignId) ==
  LET expenses == filter(values(expenseStorage),
                         LAMBDA expense : expense.campaign_id = campaignId)
  IN IF Len(expenses) = 0 THEN Err("NotFound") ELSE Ok(expenses)

(* ------------------------ Voter Outreach Management ------------------- *)
createVoterOutreach(payload, userPayload, outreachId, notificationId) ==
  LET users == values(userStorage)
      user == findByUsername(users, userPayload.username)
  IN IF user = <<>>
     THEN Outcome(Err("Unauthorized"), outreachStorage, notificationStorage)
     ELSE IF ~Truthy(payload.activity) \/ ~Truthy(payload.date) \/ ~Truthy(payload.status)
     THEN Outcome(Err("InvalidPayload"), outreachStorage, notificationStorage)
     ELSE LET campaign == get(campaignStorage, payload.campaign_id)
          IN IF OptIsFalsy(campaign)
             THEN Outcome(Err("NotFound"), outreachStorage, notificationStorage)
             ELSE LET outreach == [id |-> outreachId,
                                   campaign_id |-> payload.campaign_id,
                                   activity |-> payload.activity,
                                   date |-> payload.date,
                                   status |-> payload.status,
                                   created_at |-> now]
                  IN Outcome(Ok(<<outreach>>),
                             insert(outreachStorage, outreachId, outreach),
                             notifyParticipants(notificationStorage, outreach.campaign_id,
                                                "New voter outreach recorded.",
                                                notificationId, now))

getVoterOutreachByCampaignId(campaignId) ==
  LET outreaches == filter(values(outreachStorage),
                           LAMBDA outreach : outreach.campaign_id = campaignId)
  IN IF Len(outreaches) = 0 THEN Err("NotFound") ELSE Ok(outreaches)

(* ------------------------ Secure Message Management ------------------- *)
createMessage(payload, userPayload, messageId, notificationId) ==
  LET users == values(userStorage)
      user == findByUsername(users, userPayload.username)
  IN IF user = <<>>
     THEN Outcome(Err("Unauthorized"), messageStorage, notificationStorage)
     ELSE IF ~TruthyId(payload.sender) \/ ~Truthy(payload.content)
     THEN Outcome(Err("InvalidPayload"), messageStorage, notificationStorage)
     ELSE LET sender == get(userStorage, payload.sender)
          IN IF IsNone(sender)
             THEN Outcome(Err("NotFound"), messageStorage, notificationStorage)
             ELSE LET campaign == get(campaignStorage, payload.campaign_id)
                  IN IF IsNone(campaign)
                     THEN Outcome(Err("NotFound"), messageStorage, notificationStorage)
                     ELSE LET message == [id |-> messageId,
                                          campaign_id |-> payload.campaign_id,
                                          sender |-> payload.sender,
                                          content |-> payload.content,
                                          created_at |-> now]
                          IN Outcome(Ok(<<message>>),
                                     insert(messageStorage, messageId, message),
                                     notifyParticipants(notificationStorage,
                                                        message.campaign_id,
                                                        "New message sent.",
                                                        notificationId, now))

getMessagesBycampaignId(campaignId) ==
  LET messages == filter(values(messageStorage),
                         LAMBDA message : message.campaign_id = campaignId)
  IN IF Len(messages) = 0 THEN Err("NotFound") ELSE Ok(messages)

(* ------------------------------ Notifications ------------------------- *)
\* variant: the notifications are not filtered by campaign
getNotificationsByCampaignId_NoFilter(campaignId) ==
  LET notifications == values(notificationStorage)
  IN IF Len(notifications) = 0 THEN Err("NotFound") ELSE Ok(notifications)

getNotificationsByCampaignId(campaignId) ==
  LET notifications == filter(values(notificationStorage),
                              LAMBDA notification : notification.campaign_id = campaignId)
  IN IF Len(notifications) = 0 THEN Err("NotFound") ELSE Ok(notifications)

(* ------------------------------ the canister -------------------------- *)
\* what the last call left behind for its caller: the method and the Result
\* it returned (tag "Trap": the call was rejected, no Result was returned)
Returned(op, r) == [op |-> op, tag |-> r.tag, val |-> r.val]

\* uuidv4 yields an identifier that is not a key of the store yet
Fresh(ids, storage) == ids \ DOMAIN storage
\* the identifiers a call may draw; once the range of a store is used up the
\* methods that would add to it can only fail
Uuid(ids, storage) ==
  IF Fresh(ids, storage) = {} THEN {Min(ids)} ELSE Fresh(ids, storage)

Init ==
  /\ userStorage = <<>>
  /\ campaignStorage = <<>>
  /\ donationStorage = <<>>
  /\ expenseStorage = <<>>
  /\ outreachStorage = <<>>
  /\ messageStorage = <<>>
  /\ notificationStorage = <<>>
  /\ now = 0
  /\ result = [op |-> "init", tag |-> "Ok", val |-> <<>>]

\* time passes between two messages
Tick ==
  /\ now < MaxTime
  /\ now' = now + 1
  /\ UNCHANGED <<stores, result>>

CreateUser ==
  \E payload \in UserPayload, userId \in Uuid(UserIds, userStorage), caller \in Principals :
    \E r \in {createUser(payload, userId, caller)} :
       /\ r.tag = "Ok" => userId \in Fresh(UserIds, userStorage)
       /\ userStorage' = r.store
       /\ result' = Returned("createUser", r)
       /\ UNCHANGED <<campaignStorage, donationStorage, expenseStorage,
                      outreachStorage, messageStorage, notificationStorage, now>>

CreateCampaign ==
  \E payload \in CampaignPayload, campaignId \in Uuid(CampaignIds, campaignStorage),
     notificationId \in Uuid(NotificationIds, notificationStorage) :
    \E r \in {createCampaign(payload, campaignId, notificationId)} :
       /\ r.tag = "Ok" => /\ campaignId \in Fresh(CampaignIds, campaignStorage)
                          /\ notificationId \in Fresh(NotificationIds, notificationStorage)
       /\ campaignStorage' = r.store
       /\ notificationStorage' = r.notifications
       /\ result' = Returned("createCampaign", r)
       /\ UNCHANGED <<userStorage, donationStorage, expenseStorage,
                      outreachStorage, messageStorage, now>>

UpdateCampaign ==
  \E campaignId \in CampaignRefs, payload \in CampaignPayload,
     notificationId \in Uuid(NotificationIds, notificationStorage) :
    \E r \in {updateCampaign(campaignId, payload, notificationId)} :
       /\ r.tag = "Ok" => notificationId \in Fresh(NotificationIds, notificationStorage)
       /\ campaignStorage' = r.store
       /\ notificationStorage' = r.notifications
       /\ result' = Returned("updateCampaign", r)
       /\ UNCHANGED <<userStorage, donationStorage, expenseStorage,
                      outreachStorage, messageStorage, now>>

CreateDonation ==
  \E payload \in DonationPayload, userPayload \in CallerPayload,
     donationId \in Uuid(DonationIds, donationStorage), notificationId \in Uuid(NotificationIds, notificationStorage) :
    \E r \in {createDonation(payload, userPayload, donationId, notificationId)} :
       /\ r.tag = "Ok" => /\ donationId \in Fresh(DonationIds, donationStorage)
                          /\ notificationId \in Fresh(NotificationIds, notificationStorage)
       /\ donationStorage' = r.store
       /\ notificationStorage' = r.notifications
       /\ result' = Returned("createDonation", r)
       /\ UNCHANGED <<userStorage, campaignStorage, expenseStorage,
                      outreachStorage, messageStorage, now>>

CreateExpense ==
  \E payload \in ExpensePayload, userPayload \in CallerPayload,
     expenseId \in Uuid(ExpenseIds, expenseStorage), notificationId \in Uuid(NotificationIds, notificationStorage) :
    \E r \in {createExpense(payload, userPayload, expenseId, notificationId)} :
       /\ r.tag = "Ok" => /\ expenseId \in Fresh(ExpenseIds, expenseStorage)
                          /\ notificationId \in Fresh(NotificationIds, notificationStorage)
       /\ expenseStorage' = r.store
       /\ notificationStorage' = r.notifications
       /\ result' = Returned("createExpense", r)
       /\ UNCHANGED <<userStorage, campaignStorage, donationStorage,
                      outreachStorage, messageStorage, now>>

CreateVoterOutreach ==
  \E payload \in VoterOutreachPayload, userPayload \in CallerPayload,
     outreachId \in Uuid(OutreachIds, outreachStorage), notificationId \in Uuid(NotificationIds, notificationStorage) :
    \E r \in {createVoterOutreach(payload, userPayload, outreachId, notificationId)} :
       /\ r.tag = "Ok" => /\ outreachId \in Fresh(OutreachIds, outreachStorage)
                          /\ notificationId \in Fresh(NotificationIds, notificationStorage)
       /\ outreachStorage' = r.store
       /\ notificationStorage' = r.notifications
       /\ result' = Returned("createVoterOutreach", r)
       /\ UNCHANGED <<userStorage, campaignStorage, donationStorage,
                      expenseStorage, messageStorage, now>>

CreateMessage ==
  \E payload \in MessagePayload, userPayload \in CallerPayload,
     messageId \in Uuid(MessageIds, messageStorage), notificationId \in Uuid(NotificationIds, notificationStorage) :
    \E r \in {createMessage(payload, userPayload, messageId, notificationId)} :
       /\ r.tag = "Ok" => /\ messageId \in Fresh(MessageIds, messageStorage)
                          /\ notificationId \in Fresh(NotificationIds, notificationStorage)
       /\ messageStorage' = r.store
       /\ notificationStorage' = r.notifications
       /\ result' = Returned("createMessage", r)
       /\ UNCHANGED <<userStorage, campaignStorage, donationStorage,
                      expenseStorage, outreachStorage, now>>

\* query methods: read-only
GetUsers ==
  /\ result' = Returned("getUsers", getUsers)
  /\ UNCHANGED <<stores, now>>

GetUserByUsername ==
  \E username \in Usernames :
    /\ result' = Returned("getUserByUsername", getUserByUsername(username))
    /\ UNCHANGED <<stores, now>>

GetUsersByRole ==
  \E role \in UserRole :
    /\ result' = Returned("getUsersByRole", getUsersByRole(role))
    /\ UNCHANGED <<stores, now>>

GetCampaigns ==
  /\ result' = Returned("getCampaigns", getCampaigns)
  /\ UNCHANGED <<stores, now>>

GetCampaignById ==
  \E campaignId \in CampaignRefs :
    /\ result' = Returned("getCampaignById", getCampaignById(campaignId))
    /\ UNCHANGED <<stores, now>>

GetDonationById ==
  \E donationId \in DonationIds :
    /\ result' = Returned("getDonationById", getDonationById(donationId))
    /\ UNCHANGED <<stores, now>>

GetDonationsByCampaignId ==
  \E campaignId \in CampaignRefs :
    /\ result' = Returned("getDonationsByCampaignId", getDonationsByCampaignId(campaignId))
    /\ UNCHANGED <<stores, now>>

GetExpensesByCampaignId ==
  \E campaignId \in CampaignRefs :
    /\ result' = Returned("getExpensesByCampaignId", getExpensesByCampaignId(campaignId))
    /\ UNCHANGED <<stores, now>>

GetVoterOutreachByCampaignId ==
  \E campaignId \in CampaignRefs :
    /\ result' = Returned("getVoterOutreachByCampaignId", getVoterOutreachByCampaignId(campaignId))
    /\ UNCHANGED <<stores, now>>

GetMessagesBycampaignId ==
  \E campaignId \in CampaignRefs :
    /\ result' = Returned("getMessagesBycampaignId", getMessagesBycampaignId(campaignId))
    /\ UNCHANGED <<stores, now>>

GetNotificationsByCampaignId ==
  \E campaignId \in CampaignRefs :
    /\ result' = Returned("getNotificationsByCampaignId", getNotificationsByCampaignId(campaignId))
    /\ UNCHANGED <<stores, now>>

Next ==
  \/ Tick
  \/ CreateUser
  \/ CreateCampaign
  \/ UpdateCampaign
  \/ CreateDonation
  \/ CreateExpense
  \/ CreateVoterOutreach
  \/ CreateMessage
  \/ GetUsers
  \/ GetUserByUsername
  \/ GetUsersByRole
  \/ GetCampaigns
  \/ GetCampaignById
  \/ GetDonationById
  \/ GetDonationsByCampaignId
  \/ GetExpensesByCampaignId
  \/ GetVoterOutreachByCampaignId
  \/ GetMessagesBycampaignId
  \/ GetNotificationsByCampaignId

Spec == Init /\ [][Next]_vars
(* ------------- the campaign methods over several campaigns ------------ *)
\* A second specification of the same canister, restricted to the methods
\* that write or list campaigns and their users, with room for two
\* campaigns, two distinct non-empty texts and three notifications, so that
\* an update of one campaign beside another, with changed fields, is reached.
ManyCampaigns == 2
ManyNotifications == 3

ManyCampaignIds == 1..ManyCampaigns
ManyNotificationIds == 1..ManyNotifications
ManyTexts == {"", "x", "y"}
ManyCampaignRefs == {0} \cup ManyCampaignIds

\* the users that may create and update campaigns
StaffPayload ==
  {[username |-> "alice", role |-> "Admin"],
   [username |-> "bob", role |-> "CampaignManager"]}
\* the campaign payloads whose name and description differ: each field is
\* empty in some, and takes both non-empty texts
ManyCampaignPayload ==
  {payload \in [name : ManyTexts, description : ManyTexts, created_by : UserIds] :
     payload.name # payload.description}

CreateStaff ==
  \E payload \in StaffPayload, userId \in Uuid(UserIds, userStorage), caller \in Principals :
    \E r \in {createUser(payload, userId, caller)} :
       /\ r.tag = "Ok" => userId \in Fresh(UserIds, userStorage)
       /\ userStorage' = r.store
       /\ result' = Returned("createUser", r)
       /\ UNCHANGED <<campaignStorage, donationStorage, expenseStorage,
                      outreachStorage, messageStorage, notificationStorage, now>>

CreateCampaignOfMany ==
  \E payload \in ManyCampaignPayload, campaignId \in Uuid(ManyCampaignIds, campaignStorage),
     notificationId \in Uuid(ManyNotificationIds, notificationStorage) :
    \E r \in {createCampaign(payload, campaignId, notificationId)} :
       /\ r.tag = "Ok" => /\ campaignId \in Fresh(ManyCampaignIds, campaignStorage)
                          /\ notificationId \in Fresh(ManyNotificationIds, notificationStorage)
       /\ campaignStorage' = r.store
       /\ notificationStorage' = r.notifications
       /\ result' = Returned("createCampaign", r)
       /\ UNCHANGED <<userStorage, donationStorage, expenseStorage,
                      outreachStorage, messageStorage, now>>

UpdateCampaignOfMany ==
  \E campaignId \in ManyCampaignRefs, payload \in ManyCampaignPayload,
     notificationId \in Uuid(ManyNotificationIds, notificationStorage) :
    \E r \in {updateCampaign(campaignId, payload, notificationId)} :
       /\ r.tag = "Ok" => notificationId \in Fresh(ManyNotificationIds, notificationStorage)
       /\ campaignStorage' = r.store
       /\ notificationStorage' = r.notifications
       /\ result' = Returned("updateCampaign", r)
       /\ UNCHANGED <<userStorage, donationStorage, expenseStorage,
                      outreachStorage, messageStorage, now>>

NextMany ==
  \/ Tick
  \/ CreateStaff
  \/ CreateCampaignOfMany
  \/ UpdateCampaignOfMany
  \/ GetCampaigns

SpecMany == Init /\ [][NextMany]_vars
(* ====================================================================== *)
(* Properties                                                             *)
(* ====================================================================== *)
FreshCampaignIds == Fresh(CampaignIds, campaignStorage)
FreshNotificationIds == Fresh(NotificationIds, notificationStorage)

\* the stored user with this id has one of the given roles
UserHasRole(userId, roles) ==
  userId \in DOMAIN userStorage /\ userStorage[userId].role \in roles

\* C1: in every reachable state, createCampaign with non-empty name and
\* description and a created_by naming a stored Admin or CampaignManager
\* returns Ok with a record that is stored under its id; and in the state
\* right after a successful createCampaign, getCampaignById of the returned
\* id returns Ok with that same record.
C1_CreateCampaignRetrievable ==
  /\ \A payload \in CampaignPayload, campaignId \in FreshCampaignIds,
        notificationId \in FreshNotificationIds :
       ( /\ Truthy(payload.name)
         /\ Truthy(payload.description)
         /\ UserHasRole(payload.created_by, {"Admin", "CampaignManager"}) )
       => LET r == createCampaign(payload, campaignId, notificationId)
          IN /\ r.tag = "Ok"
             /\ get(r.store, r.val[1].id) = [Some |-> r.val[1]]
  /\ (result.op = "createCampaign" /\ result.tag = "Ok")
       => getCampaignById(result.val[1].id) = Ok(result.val)

\* a CampaignManager has just created a campaign
C1_Witness ==
  /\ result.op = "createCampaign"
  /\ result.tag = "Ok"
  /\ UserHasRole(result.val[1].created_by, {"CampaignManager"})
  /\ getCampaignById(result.val[1].id).tag = "Ok"

\* C2: every call returns Ok or one of the four error tags; no call ends
\* without a tagged Result (in particular not createCampaign for a
\* created_by that is the id of no stored user).
C2_EveryCallReturnsTaggedResult ==
  result.op # "init" => result.tag \in {"Ok"} \cup Error

\* C3: every stored donation, expense, outreach record, message and
\* notification has a campaign_id that is the id of a stored campaign.
C3_CampaignIdsResolve ==
  \A storage \in {donationStorage, expenseStorage, outreachStorage,
                  messageStorage, notificationStorage} :
    \A id \in DOMAIN storage : storage[id].campaign_id \in DOMAIN campaignStorage

\* C4: a call that returns an error tag leaves all seven stores as they were.
C4_ErrorLeavesStoresUnchanged ==
  [][result'.tag \in Error => UNCHANGED stores]_vars

\* a Donor's valid donation for a missing campaign was refused with NotFound,
\* the last check before the writes
C4_Witness ==
  /\ result.op = "createDonation"
  /\ result.tag = "NotFound"
  /\ campaignStorage = <<>>
\* the elements of a sequence
Range(seq) == {seq[i] : i \in DOMAIN seq}

\* the notifications stored for a campaign id
NotificationsOf(campaignId) ==
  {id \in DOMAIN notificationStorage :
     notificationStorage[id].campaign_id = campaignId}

\* a campaign was created and a first donation for it has just succeeded:
\* the campaign has exactly the two notifications of these two calls
CampaignThenDonation ==
  /\ result.op = "createDonation"
  /\ result.tag = "Ok"
  /\ Cardinality(NotificationsOf(result.val[1].campaign_id)) = 2
  /\ {notificationStorage[id].message : id \in NotificationsOf(result.val[1].campaign_id)}
       = {"New campaign created.", "New donation received."}

\* C5 (as stated): getNotificationsByCampaignId returns the notifications of
\* a campaign in the order in which they were created; after createCampaign
\* and a successful createDonation the list is "New campaign created."
\* followed by "New donation received.", whatever identifiers were generated.
C5_NotificationsInCreationOrder ==
  /\ \A campaignId \in CampaignRefs :
       LET r == getNotificationsByCampaignId(campaignId)
       IN \A i, j \in DOMAIN r.val :
            i < j => r.val[i].created_at <= r.val[j].created_at
  /\ CampaignThenDonation =>
       LET r == getNotificationsByCampaignId(result.val[1].campaign_id)
       IN /\ r.tag = "Ok"
          /\ [i \in DOMAIN r.val |-> r.val[i].message]
               = <<"New campaign created.", "New donation received.">>

\* C5 (amended): getNotificationsByCampaignId returns NotFound when the
\* campaign id has no notification and otherwise exactly the stored
\* notifications of that campaign id, each once, in ascending order of their
\* identifiers; after createCampaign and a successful createDonation the list
\* has two elements, one per message, in the order of their identifiers.
C5_NotificationsInKeyOrder ==
  /\ \A campaignId \in CampaignRefs :
       LET r == getNotificationsByCampaignId(campaignId)
           M == NotificationsOf(campaignId)
       IN IF M = {}
          THEN r = Err("NotFound")
          ELSE /\ r.tag = "Ok"
               /\ Len(r.val) = Cardinality(M)
               /\ Range(r.val) = {notificationStorage[id] : id \in M}
               /\ \A i, j \in DOMAIN r.val : i < j => r.val[i].id < r.val[j].id
  /\ CampaignThenDonation =>
       LET r == getNotificationsByCampaignId(result.val[1].campaign_id)
       IN /\ r.tag = "Ok"
          /\ Len(r.val) = 2
          /\ {r.val[1].message, r.val[2].message}
               = {"New campaign created.", "New donation received."}

\* the donation's notification drew the smaller identifier and is listed
\* before the notification of the campaign's creation
C5_Witness ==
  /\ CampaignThenDonation
  /\ [i \in 1..2 |-> getNotificationsByCampaignId(result.val[1].campaign_id).val[i].message]
       = <<"New donation received.", "New campaign created.">>

\* C6: no two stored users have the same username, and createUser with a
\* stored username returns ValidationError and adds nothing.
C6_UsernamesUnique ==
  /\ \A i, j \in DOMAIN userStorage :
       i # j => userStorage[i].username # userStorage[j].username
  /\ \A payload \in UserPayload, userId \in UserIds, caller \in Principals :
       (\E id \in DOMAIN userStorage : userStorage[id].username = payload.username)
       => LET r == createUser(payload, userId, caller)
          IN r.tag = "ValidationError" /\ r.store = userStorage

\* a second createUser with a stored username was refused
C6_Witness ==
  /\ result.op = "createUser"
  /\ result.tag = "ValidationError"
  /\ Cardinality(DOMAIN userStorage) = 1

\* C7: getUsersByRole returns exactly the stored users with the requested
\* role for Admin and CampaignManager (NotFound when there is none), and
\* NotFound for Donor.
C7_UsersByRoleExact ==
  \A role \in UserRole :
    LET r == getUsersByRole(role)
        M == {id \in DOMAIN userStorage : userStorage[id].role = role}
    IN IF role = "Donor" \/ M = {}
       THEN r = Err("NotFound")
       ELSE /\ r.tag = "Ok"
            /\ Len(r.val) = Cardinality(M)
            /\ Range(r.val) = {userStorage[id] : id \in M}

\* the username names a stored user with this role
CallerResolvesTo(username, role) ==
  \E id \in DOMAIN userStorage :
    userStorage[id].username = username /\ userStorage[id].role = role

\* C8: createDonation returns Unauthorized whenever the caller's username is
\* not that of a stored Donor, createExpense whenever it is not that of a
\* stored Admin, whatever the payload and whether or not the campaign
\* exists; and nothing is written.
C8_RoleGateFirst ==
  \A userPayload \in UserPayload, notificationId \in NotificationIds :
    /\ ~CallerResolvesTo(userPayload.username, "Donor")
         => \A payload \in DonationPayload, donationId \in DonationIds :
              LET r == createDonation(payload, userPayload, donationId, notificationId)
              IN /\ r.tag = "Unauthorized"
                 /\ r.store = donationStorage
                 /\ r.notifications = notificationStorage
    /\ ~CallerResolvesTo(userPayload.username, "Admin")
         => \A payload \in ExpensePayload, expenseId \in ExpenseIds :
              LET r == createExpense(payload, userPayload, expenseId, notificationId)
              IN /\ r.tag = "Unauthorized"
                 /\ r.store = expenseStorage
                 /\ r.notifications = notificationStorage

\* an expense was refused as Unauthorized while a campaign exists and no
\* stored user is an Admin
C8_Witness ==
  /\ result.op = "createExpense"
  /\ result.tag = "Unauthorized"
  /\ campaignStorage # <<>>
  /\ \A id \in DOMAIN userStorage : userStorage[id].role # "Admin"

\* C9: for a Donor caller, createDonation with amount 0 returns
\* InvalidPayload; with a non-empty donor_name, an amount of at least 1 and
\* an existing campaign it returns Ok, adds exactly one donation and exactly
\* one notification, for the donation's campaign, "New donation received."
C9_DonationAmountAndNotification ==
  \A userPayload \in UserPayload :
    CallerResolvesTo(userPayload.username, "Donor") =>
      /\ \A payload \in DonationPayload, donationId \in DonationIds,
            notificationId \in NotificationIds :
           payload.amount = 0 =>
             createDonation(payload, userPayload, donationId, notificationId).tag
               = "InvalidPayload"
      /\ \A payload \in DonationPayload,
            donationId \in Fresh(DonationIds, donationStorage),
            notificationId \in FreshNotificationIds :
           ( /\ Truthy(payload.donor_name)
             /\ payload.amount >= 1
             /\ payload.campaign_id \in DOMAIN campaignStorage )
           => LET r == createDonation(payload, userPayload, donationId, notificationId)
              IN /\ r.tag = "Ok"
                 /\ DOMAIN r.store = DOMAIN donationStorage \cup {donationId}
                 /\ \A id \in DOMAIN donationStorage : r.store[id] = donationStorage[id]
                 /\ r.store[donationId] = r.val[1]
                 /\ DOMAIN r.notifications
                      = DOMAIN notificationStorage \cup {notificationId}
                 /\ \A id \in DOMAIN notificationStorage :
                      r.notifications[id] = notificationStorage[id]
                 /\ r.notifications[notificationId].campaign_id = payload.campaign_id
                 /\ r.notifications[notificationId].message = "New donation received."

\* a donation of amount 1 has just been accepted and notified
C9_Witness ==
  /\ result.op = "createDonation"
  /\ result.tag = "Ok"
  /\ result.val[1].amount = 1
  /\ \E id \in DOMAIN notificationStorage :
       /\ notificationStorage[id].message = "New donation received."
       /\ notificationStorage[id].campaign_id = result.val[1].campaign_id

\* C10: updateCampaign with an id that is the id of no stored campaign
\* returns NotFound whatever the payload, and writes neither the campaign
\* store nor the notification store.
C10_UpdateMissingCampaign ==
  \A campaignId \in CampaignRefs \ DOMAIN campaignStorage,
     payload \in CampaignPayload, notificationId \in NotificationIds :
    LET r == updateCampaign(campaignId, payload, notificationId)
    IN /\ r.tag = "NotFound"
       /\ r.store = campaignStorage
       /\ r.notifications = notificationStorage

\* an update was refused with NotFound while no campaign was stored, although
\* an Admin was stored to authorize it
C10_Witness ==
  /\ result.op = "updateCampaign"
  /\ result.tag = "NotFound"
  /\ campaignStorage = <<>>
  /\ \E id \in DOMAIN userStorage : userStorage[id].role = "Admin"

\* C11: for every stored donation id, getDonationById returns Ok with the
\* stored donation: the campaign the donation names is stored, so the second
\* NotFound of getDonationById ("associated campaign not found") is never
\* returned for a stored donation.
C11_StoredDonationRetrievable ==
  \A donationId \in DOMAIN donationStorage :
    /\ ~IsNone(get(campaignStorage, donationStorage[donationId].campaign_id))
    /\ getDonationById(donationId) = Ok(<<donationStorage[donationId]>>)

\* a stored donation was fetched by its id at a later time than its creation
C11_Witness ==
  /\ result.op = "getDonationById"
  /\ result.tag = "Ok"
  /\ result.val[1].id \in DOMAIN donationStorage
  /\ result.val[1].created_at < now

\* the stored donations with a campaign id
DonationsOf(campaignId) ==
  {id \in DOMAIN donationStorage : donationStorage[id].campaign_id = campaignId}

\* C12: getDonationsByCampaignId(c) returns NotFound exactly when no stored
\* donation has campaign_id c, also when campaign c is stored, and otherwise
\* exactly the stored donations with campaign_id c, each once; right after
\* the first successful createDonation for c it returns the one-element list
\* holding that donation.
C12_DonationsByCampaignExact ==
  /\ \A campaignId \in CampaignRefs :
       LET r == getDonationsByCampaignId(campaignId)
           M == DonationsOf(campaignId)
       IN IF M = {}
          THEN r = Err("NotFound")
          ELSE /\ r.tag = "Ok"
               /\ Len(r.val) = Cardinality(M)
               /\ Range(r.val) = {donationStorage[id] : id \in M}
  /\ ( /\ result.op = "createDonation"
       /\ result.tag = "Ok"
       /\ Cardinality(DonationsOf(result.val[1].campaign_id)) = 1 )
     => getDonationsByCampaignId(result.val[1].campaign_id) = Ok(result.val)

\* the first donation for a stored campaign has just been accepted and the
\* list of that campaign's donations holds exactly it
C12_Witness ==
  /\ result.op = "createDonation"
  /\ result.tag = "Ok"
  /\ result.val[1].campaign_id \in DOMAIN campaignStorage
  /\ getDonationsByCampaignId(result.val[1].campaign_id) = Ok(result.val)

\* C13: createCampaign with non-empty name and description and a created_by
\* that is the id of a stored Donor returns Unauthorized and stores neither a
\* campaign nor a notification.
C13_DonorCannotCreateCampaign ==
  \A payload \in CampaignPayload, campaignId \in CampaignIds,
     notificationId \in NotificationIds :
    ( /\ Truthy(payload.name)
      /\ Truthy(payload.description)
      /\ UserHasRole(payload.created_by, {"Donor"}) )
    => LET r == createCampaign(payload, campaignId, notificationId)
       IN /\ r.tag = "Unauthorized"
          /\ r.store = campaignStorage
          /\ r.notifications = notificationStorage

\* a createCampaign was refused as Unauthorized while every stored user is a
\* Donor, and nothing is stored for any campaign
C13_Witness ==
  /\ result.op = "createCampaign"
  /\ result.tag = "Unauthorized"
  /\ userStorage # <<>>
  /\ \A id \in DOMAIN userStorage : userStorage[id].role = "Donor"
  /\ campaignStorage = <<>>
  /\ notificationStorage = <<>>

\* the campaign payloads with any created_by: the id a user may get, stored
\* or not, or the empty text
AnyCreatorPayload ==
  [name : Texts, description : Texts, created_by : {0} \cup UserIds]

\* C14: createCampaign with an empty name or an empty description returns
\* InvalidPayload and writes nothing, whatever created_by is: the id of a
\* stored Admin, CampaignManager or Donor, or the id of no stored user.
C14_FieldCheckFirst ==
  \A payload \in AnyCreatorPayload, campaignId \in CampaignIds,
     notificationId \in NotificationIds :
    (~Truthy(payload.name) \/ ~Truthy(payload.description))
    => LET r == createCampaign(payload, campaignId, notificationId)
       IN /\ r.tag = "InvalidPayload"
          /\ r.store = campaignStorage
          /\ r.notifications = notificationStorage

\* a createCampaign was refused as InvalidPayload while no user is stored,
\* so that its created_by resolves to no user
C14_Witness ==
  /\ result.op = "createCampaign"
  /\ result.tag = "InvalidPayload"
  /\ userStorage = <<>>

UpdatedInStep(campaignId) ==
  /\ result'.op = "updateCampaign"
  /\ result'.tag = "Ok"
  /\ result'.val[1].id = campaignId
  /\ notificationStorage' # notificationStorage

RecordsUnchanged(before, after) ==
  \A id \in DOMAIN before : id \in DOMAIN after /\ after[id] = before[id]

\* C17: no step deletes or re-keys a record: every record of each of the
\* seven stores is still in its store after the step with the same id and
\* created_at; the records of the six stores other than the campaign store
\* are unchanged, and a campaign changes only in a successful updateCampaign
\* of that campaign.
C17_RecordsNeverDeletedOrRekeyed ==
  [][ /\ RecordsUnchanged(userStorage, userStorage')
      /\ RecordsUnchanged(donationStorage, donationStorage')
      /\ RecordsUnchanged(expenseStorage, expenseStorage')
      /\ RecordsUnchanged(outreachStorage, outreachStorage')
      /\ RecordsUnchanged(messageStorage, messageStorage')
      /\ RecordsUnchanged(notificationStorage, notificationStorage')
      /\ \A id \in DOMAIN campaignStorage :
           /\ id \in DOMAIN campaignStorage'
           /\ campaignStorage'[id].id = campaignStorage[id].id
           /\ campaignStorage'[id].created_at = campaignStorage[id].created_at
           /\ campaignStorage'[id] # campaignStorage[id] => UpdatedInStep(id)
    ]_vars

\* a campaign was updated at a later time than its creation, by another user
\* than its creator: it is stored under its id with its created_at, beside
\* the notification of its creation
C17_Witness ==
  /\ result.op = "updateCampaign"
  /\ result.tag = "Ok"
  /\ campaignStorage[result.val[1].id] = result.val[1]
  /\ result.val[1].created_at < result.val[1].updated_at
  /\ \E n \in DOMAIN notificationStorage :
       /\ notificationStorage[n].message = "New campaign created."
       /\ notificationStorage[n].campaign_id = result.val[1].id
       /\ notificationStorage[n].created_at = result.val[1].created_at
====
